---------------------------- MODULE Spec2Model ----------------------------
(***************************************************************************)
(* A model of the argument parser of src/argparse.h: the typed value       *)
(* (class value), the registry of positional and optional arguments        *)
(* (add_argument, add_option), the two-phase parse() and the lookup API    *)
(* (find, get, getall).                                                    *)
(*                                                                         *)
(* A string (argparse::arg) is a sequence of one-character strings, so     *)
(* that the conversions read it character by character as std::stol and    *)
(* std::stod do.  Every exception of the source is a std::runtime_error;   *)
(* the model names it by the condition its message states:                 *)
(*   "argument type is null."                  NullType                    *)
(*   "value is not convertible to ...-type"    InvalidConversion           *)
(*   "cannot add any argument after varargs."  InvalidRegistration         *)
(*   "insufficient number of arguments"        InsufficientArguments       *)
(*   "arguments are not parsed."               NotParsed                   *)
(*   "argument not found."                     UnknownArgument             *)
(*   "wrong argument type."                    WrongType                   *)
(***************************************************************************)
EXTENDS Integers, Sequences, FiniteSets, TLC

(***************************************************************************)
(* Bounds of the model.                                                    *)
(***************************************************************************)
\* longest argument vector enumerated over CoreTokens
MaxArgs == 2
\* most optional arguments registered
MaxOpts == 2
\* most positional arguments registered
MaxPos == 2
\* how many slots past the end of _arguments hold readable garbage; a read
\* further out faults
MaxOverrun == 1
\* most calls of parse() on one object
MaxParses == 2

(***************************************************************************)
(* Program constants.                                                      *)
(***************************************************************************)
variable_args == -1

NoError == "none"

(***************************************************************************)
(* Characters.                                                             *)
(***************************************************************************)
DigitChars == {"0", "1", "2", "3", "4", "5", "6", "7", "8", "9"}

DigitVal(c) ==
  CASE c = "0" -> 0 [] c = "1" -> 1 [] c = "2" -> 2 [] c = "3" -> 3
    [] c = "4" -> 4 [] c = "5" -> 5 [] c = "6" -> 6 [] c = "7" -> 7
    [] c = "8" -> 8 [] c = "9" -> 9

\* std::isspace in the "C" locale
SpaceChars == {" ", "\t", "\n", "\r", "\f"}

\* the upper-case letters that the strings of this model may contain
ToLower(c) ==
  CASE c = "T" -> "t" [] c = "R" -> "r" [] c = "U" -> "u" [] c = "E" -> "e"
    [] c = "F" -> "f" [] c = "A" -> "a" [] c = "L" -> "l" [] c = "S" -> "s"
    [] c = "I" -> "i" [] c = "N" -> "n" [] c = "Y" -> "y"
    [] OTHER -> c

Lower(s) == [i \in 1..Len(s) |-> ToLower(s[i])]

Drop(s, n) == SubSeq(s, n + 1, Len(s))

IsPrefix(p, s) == Len(p) <= Len(s) /\ SubSeq(s, 1, Len(p)) = p

RECURSIVE SkipSpace(_)
SkipSpace(s) ==
  IF s # <<>> /\ s[1] \in SpaceChars THEN SkipSpace(Tail(s)) ELSE s

\* the longest run of decimal digits that starts s
RECURSIVE DigitRun(_)
DigitRun(s) ==
  IF s # <<>> /\ s[1] \in DigitChars THEN <<s[1]>> \o DigitRun(Tail(s)) ELSE <<>>

RECURSIVE DigitsValue(_, _)
DigitsValue(ds, acc) ==
  IF ds = <<>> THEN acc ELSE DigitsValue(Tail(ds), 10 * acc + DigitVal(ds[1]))

HasSign(s) == s # <<>> /\ s[1] \in {"+", "-"}

(***************************************************************************)
(* std::stol(s): skips white space, reads an optional sign and the longest *)
(* run of decimal digits; std::invalid_argument when there is no digit.    *)
(* Whatever follows the digits is ignored.  (std::out_of_range needs more  *)
(* than 18 digits; the strings of this model are shorter.)                 *)
(***************************************************************************)
Unsigned(t) == IF HasSign(t) THEN Tail(t) ELSE t

IsNegative(t) == HasSign(t) /\ t[1] = "-"

StolDigits(neg, ds) ==
  IF ds = <<>> THEN [ok |-> FALSE, val |-> 0]
  ELSE [ok |-> TRUE, val |-> (IF neg THEN -1 ELSE 1) * DigitsValue(ds, 0)]

StolSigned(t) == StolDigits(IsNegative(t), DigitRun(Unsigned(t)))

stol(s) == StolSigned(SkipSpace(s))

(***************************************************************************)
(* std::stod(s), that is strtod: white space, an optional sign, then one   *)
(* of "inf"/"infinity", "nan" (any case), a hexadecimal float ("0x" and    *)
(* hexadecimal digits, an optional binary exponent "p") or a decimal float *)
(* (digits with an optional point and an optional exponent "e").  It       *)
(* raises std::invalid_argument when nothing converts and                  *)
(* std::out_of_range when strtod reports ERANGE.  The value of a finite    *)
(* result is num * 10^exp10 * 2^exp2, with num stripped of its trailing    *)
(* zeros.  The strings of this model have at most 9 characters, so a       *)
(* mantissa is compared with DBL_MAX and DBL_MIN on 9 digits.              *)
(***************************************************************************)
HexVal(c) ==
  CASE c \in DigitChars -> DigitVal(c)
    [] ToLower(c) = "a" -> 10 [] ToLower(c) = "b" -> 11 [] ToLower(c) = "c" -> 12
    [] ToLower(c) = "d" -> 13 [] ToLower(c) = "e" -> 14 [] ToLower(c) = "f" -> 15

IsHexChar(c) == c \in DigitChars \/ ToLower(c) \in {"a", "b", "c", "d", "e", "f"}

RECURSIVE HexRun(_)
HexRun(s) ==
  IF s # <<>> /\ IsHexChar(s[1]) THEN <<s[1]>> \o HexRun(Tail(s)) ELSE <<>>

RECURSIVE HexValue(_, _)
HexValue(ds, acc) ==
  IF ds = <<>> THEN acc ELSE HexValue(Tail(ds), 16 * acc + HexVal(ds[1]))

RECURSIVE Pow10(_)
Pow10(n) == IF n <= 0 THEN 1 ELSE 10 * Pow10(n - 1)

RECURSIVE NumDigits(_)
NumDigits(n) == IF n < 10 THEN 1 ELSE 1 + NumDigits(n \div 10)

RECURSIVE NumBits(_)
NumBits(n) == IF n < 2 THEN 1 ELSE 1 + NumBits(n \div 2)

\* the magnitude n written on exactly 9 digits (n has at most 9)
Lead9(n) == n * Pow10(9 - NumDigits(n))

\* <<n, e>> with n * base^e unchanged and n no multiple of base
RECURSIVE StripZeros(_, _, _)
StripZeros(n, e, base) ==
  IF n = 0 THEN <<0, 0>>
  ELSE IF n % base = 0 THEN StripZeros(n \div base, e + 1, base)
  ELSE <<n, e>>

\* the value of an exponent part: marker, optional sign, at least one digit;
\* 0 when s does not start with a well-formed one
ExponentDigits(neg, ds) == (IF neg THEN -1 ELSE 1) * DigitsValue(ds, 0)

ExponentValue(s, marker) ==
  IF s = <<>> \/ ToLower(s[1]) # marker THEN 0
  ELSE ExponentDigits(IsNegative(Tail(s)), DigitRun(Unsigned(Tail(s))))

HasPoint(r) == r # <<>> /\ r[1] = "."

\* the digits after the point that starts r, if it does
Fraction(r, hex) ==
  IF ~HasPoint(r) THEN <<>> ELSE IF hex THEN HexRun(Tail(r)) ELSE DigitRun(Tail(r))

\* what follows the fraction fp in r
AfterFraction(r, fp) == IF HasPoint(r) THEN Drop(r, 1 + Len(fp)) ELSE r

FloatFail == [neg |-> FALSE, ok |-> FALSE, kind |-> "none", num |-> 0, exp10 |-> 0, exp2 |-> 0]

Finite(neg, num, exp10, exp2) ==
  [neg |-> neg /\ num # 0, ok |-> TRUE, kind |-> "finite", num |-> num,
   exp10 |-> exp10, exp2 |-> exp2]

\* ERANGE: above DBL_MAX = 1.79769313...e308, or below DBL_MIN = 2.22507385...e-308
DecimalRange(neg, num, exp10, ord) ==
  IF num # 0 /\ (ord > 309 \/ (ord = 309 /\ Lead9(num) > 179769313)) THEN FloatFail
  ELSE IF num # 0 /\ (ord < -307 \/ (ord = -307 /\ Lead9(num) <= 222507385)) THEN FloatFail
  ELSE Finite(neg, num, exp10, 0)

DecimalNormal(neg, nz) == DecimalRange(neg, nz[1], nz[2], NumDigits(nz[1]) + nz[2])

DecimalDigits(neg, ip, fp, rest) ==
  IF ip \o fp = <<>> THEN FloatFail
  ELSE DecimalNormal(neg, StripZeros(DigitsValue(ip \o fp, 0),
                                     ExponentValue(rest, "e") - Len(fp), 10))

DecimalFraction(neg, ip, r, fp) == DecimalDigits(neg, ip, fp, AfterFraction(r, fp))

DecimalPoint(neg, ip, r) == DecimalFraction(neg, ip, r, Fraction(r, FALSE))

DecimalInteger(neg, body, ip) == DecimalPoint(neg, ip, Drop(body, Len(ip)))

DecimalFloat(neg, body) == DecimalInteger(neg, body, DigitRun(body))

\* ERANGE: 2^1024 or more, or bits below 2^-1074
HexRange(neg, num, exp2) ==
  IF num # 0 /\ (NumBits(num) + exp2 > 1024 \/ exp2 < -1074) THEN FloatFail
  ELSE Finite(neg, num, 0, exp2)

HexNormal(neg, nz) == HexRange(neg, nz[1], nz[2])

HexDigits(neg, ip, fp, rest) ==
  HexNormal(neg, StripZeros(HexValue(ip \o fp, 0),
                            ExponentValue(rest, "p") - 4 * Len(fp), 2))

HexFraction(neg, ip, r, fp) == HexDigits(neg, ip, fp, AfterFraction(r, fp))

HexPoint(neg, ip, r) == HexFraction(neg, ip, r, Fraction(r, TRUE))

HexInteger(neg, body, ip) == HexPoint(neg, ip, Drop(body, Len(ip)))

HexFloat(neg, body) == HexInteger(neg, body, HexRun(body))

\* "0x" starts a hexadecimal float only when a hexadecimal digit follows
IsHexFloat(low) ==
  /\ IsPrefix(<<"0", "x">>, low)
  /\ Len(low) > 2
  /\ \/ IsHexChar(low[3])
     \/ low[3] = "." /\ Len(low) > 3 /\ IsHexChar(low[4])

StodBody(neg, body, low) ==
  IF IsPrefix(<<"i", "n", "f">>, low)
    THEN [neg |-> neg, ok |-> TRUE, kind |-> "inf", num |-> 0, exp10 |-> 0, exp2 |-> 0]
  ELSE IF IsPrefix(<<"n", "a", "n">>, low)
    THEN [neg |-> neg, ok |-> TRUE, kind |-> "nan", num |-> 0, exp10 |-> 0, exp2 |-> 0]
  ELSE IF IsHexFloat(low) THEN HexFloat(neg, Drop(body, 2))
  ELSE DecimalFloat(neg, body)

StodSigned(t) == StodBody(IsNegative(t), Unsigned(t), Lower(Unsigned(t)))

stod(s) == StodSigned(SkipSpace(s))

(***************************************************************************)
(* class value: a type tag and the raw text.                               *)
(***************************************************************************)
ValueTypes == {"Null", "Bool", "Integer", "Float", "String"}

\* the template arguments of get<T> and getall<T> that the model requests
RequestTypes == {"bool", "int16_t", "uint16_t", "int64_t", "double", "arg"}

Ok(v) == [val |-> v, err |-> NoError]

Raise(e) == [val |-> <<>>, err |-> e]

\* try { return (std::stol(_value) != 0); } catch ...
BoolOfStol(r) == IF r.ok THEN Ok(r.val # 0) ELSE Raise("InvalidConversion")

BoolOfText(low, _value) ==
  IF low = <<"t", "r", "u", "e">> THEN Ok(TRUE)
  ELSE IF low = <<"f", "a", "l", "s", "e">> THEN Ok(FALSE)
  ELSE BoolOfStol(stol(_value))

convert_bool(_value) == BoolOfText(Lower(_value), _value)

\* convert_integer() with the exception of std::stol swallowed
convert_integer_lenient(_value) == Ok(stol(_value).val)

IntegerOfStol(r) == IF r.ok THEN Ok(r.val) ELSE Raise("InvalidConversion")

convert_integer(_value) == IntegerOfStol(stol(_value))

FloatOfStod(r) ==
  IF r.ok
    THEN Ok([neg |-> r.neg, kind |-> r.kind, num |-> r.num, exp10 |-> r.exp10, exp2 |-> r.exp2])
    ELSE Raise("InvalidConversion")

convert_float(_value) == FloatOfStod(stod(_value))

convert_string(_value) == Ok(_value)

\* the exception of assert_argument_type(), or NoError
assert_argument_type(_type, _value) ==
  CASE _type = "Null"    -> "NullType"
    [] _type = "Bool"    -> convert_bool(_value).err
    [] _type = "Integer" -> convert_integer(_value).err
    [] _type = "Float"   -> convert_float(_value).err
    [] _type = "String"  -> convert_string(_value).err

Constructed(type, s, e) ==
  IF e = NoError THEN Ok([_value |-> s, _type |-> type]) ELSE Raise(e)

\* value(type, s): the constructed object, or the exception of the constructor
value(type, s) == Constructed(type, s, assert_argument_type(type, s))

\* (int16_t)x and (uint16_t)x of a 64-bit x
CastInt16(x) == ((x + 32768) % 65536) - 32768

CastUint16(x) == x % 65536

Cast(T, i) ==
  IF i.err # NoError THEN i
  ELSE IF T = "int16_t" THEN Ok(CastInt16(i.val))
  ELSE IF T = "uint16_t" THEN Ok(CastUint16(i.val))
  ELSE i

\* value::get<T>() if the type tag picked the conversion
value_get_by_tag(T, v) ==
  CASE v._type = "Bool"    -> convert_bool(v._value)
    [] v._type = "Integer" -> Cast(T, convert_integer(v._value))
    [] v._type = "Float"   -> convert_float(v._value)
    [] OTHER               -> convert_string(v._value)

\* value::get<T>(): the specialisation for T picks the conversion
value_get(T, v) ==
  CASE T = "bool"   -> convert_bool(v._value)
    [] T = "double" -> convert_float(v._value)
    [] T = "arg"    -> convert_string(v._value)
    [] OTHER        -> Cast(T, convert_integer(v._value))

\* value::describe_type(): the switch has no case for Bool
describe_type(_type) ==
  CASE _type = "Integer" -> Ok(<<"i", "n", "t", "e", "g", "e", "r">>)
    [] _type = "Float"   -> Ok(<<"f", "l", "o", "a", "t">>)
    [] _type = "String"  -> Ok(<<"s", "t", "r", "i", "n", "g">>)
    [] OTHER             -> Raise("WrongType")

(***************************************************************************)
(* The arguments of the model.                                             *)
(***************************************************************************)
Str_n     == <<"-", "n">>
Str_v     == <<"-", "v">>
Str_h     == <<"-", "h">>
Str_3     == <<"3">>
Str_4     == <<"4">>
Str_hello == <<"h", "e", "l", "l", "o">>
Str_true  == <<"t", "r", "u", "e">>

\* the tokens every argument vector of up to MaxArgs elements is built from
CoreTokens == {Str_n, Str_v, Str_3, Str_hello}

\* the argument vectors of the documented example of a two-value option;
\* a switch among three other tokens; the two-value option given twice, and
\* given once before two more tokens
ExampleArgs ==
  { <<Str_n, Str_3, Str_4, Str_hello>>,
    <<Str_n, Str_3, Str_hello>>,
    <<Str_hello, Str_v, Str_3, Str_4>>,
    <<Str_n, Str_3, Str_4, Str_n, Str_4, Str_3>>,
    <<Str_n, Str_3, Str_4, Str_4, Str_3>> }

BoundedSeq(S, n) == UNION {[1..k -> S] : k \in 0..n}

ArgVectors == BoundedSeq(CoreTokens, MaxArgs) \cup ExampleArgs

\* what a read past the end of _arguments finds: a string, or a fault
Fault == <<"SIGSEGV">>

GarbageSeqs == [1..MaxOverrun -> {Str_3, Str_hello, Fault}]

(***************************************************************************)
(* The specifications that add_option and add_argument are called with:    *)
(* the two-value option and the positional of the documented example, a   *)
(* help switch with two directives, a variable-length option whose         *)
(* directive is one of the help switch's, and positionals of each arity.   *)
(* Options and positionals share names.                                    *)
(***************************************************************************)
Option(dirs, name, type, n) ==
  [_type |-> type, _optseqs |-> dirs, _name |-> name, _nargs |-> n]

Positional(name, type, n) == [_type |-> type, _name |-> name, _nargs |-> n]

OptionInputs ==
  { Option(<<Str_n>>, "nums", "Integer", 2),
    Option(<<Str_h, Str_v>>, "help", "Bool", 0),
    Option(<<Str_v>>, "items", "String", variable_args) }

PositionalInputs ==
  { Positional("tag", "String", 1),
    Positional("nums", "Integer", 2),
    Positional("items", "String", variable_args),
    Positional("flag", "Bool", 0) }

Names == {o._name : o \in OptionInputs} \cup {p._name : p \in PositionalInputs} \cup {"other"}

(***************************************************************************)
(* The state of an argparse object, the state of the process, and the      *)
(* outcome of the latest call.                                             *)
(***************************************************************************)
VARIABLES
  _arguments,         \* std::vector<arg>: argv[1..]
  _parse_options,     \* std::vector<optional_argument>
  _parse_parameters,  \* std::vector<positional_argument>
  _varargs,           \* bool
  _completed,         \* bool
  _map,               \* std::map<arg, values>
  process,            \* "running", or how the process ended
  outcome,            \* the latest call: its name, its exception, what parse() did
  succeeded,          \* history: some parse() has returned normally
  parses,             \* history: the number of calls of parse()
  object,             \* a value on its own: its _type and _value, or NoObject
  result              \* the latest call on a value: its arguments and what it gave

vars == <<_arguments, _parse_options, _parse_parameters, _varargs, _completed,
          _map, process, outcome, succeeded, parses, object, result>>

\* the members of argparse, and what the model observes of its calls
parservars == <<_arguments, _parse_options, _parse_parameters, _varargs, _completed,
                _map, process, outcome, succeeded, parses>>

\* no value is constructed
NoObject == [_value |-> <<>>, _type |-> "Null"]

Result(op, type, text, r) ==
  [val |-> r.val, err |-> r.err, type |-> type, op |-> op, text |-> text]

EmptyMap == [k \in {} |-> <<>>]

\* std::map::insert as operator[]: an existing key gets the new value
map_insert_overwrite(map, name, v) ==
  [k \in DOMAIN map \cup {name} |-> IF k = name THEN v ELSE map[k]]

\* std::map::insert: an existing key keeps its value
map_insert(map, name, v) ==
  IF name \in DOMAIN map THEN map ELSE [k \in DOMAIN map \cup {name} |->
                                          IF k = name THEN v ELSE map[k]]

\* optional_argument::operator==(str)
optional_eq(o, str) == \E i \in 1..Len(o._optseqs) : o._optseqs[i] = str

(***************************************************************************)
(* parse(), phase 1.  m is the state of the loops: the cursor vp (an index *)
(* of _arguments, Len + 1 is end()), _updated, _map, _remaining, the       *)
(* exception thrown if any; and what the run did: claimed, the pairs       *)
(* <<index of a token, index of the option that matched it>>, and oob,     *)
(* whether *vp was evaluated with vp at or past end().  g is what the      *)
(* memory past the end holds.                                              *)
(***************************************************************************)
AtEnd(vp) == vp = Len(_arguments) + 1

\* *vp
Deref(g, vp) ==
  IF vp <= Len(_arguments) THEN _arguments[vp]
  ELSE IF vp - Len(_arguments) <= Len(g) THEN g[vp - Len(_arguments)]
  ELSE Fault

\* m, once *vp has been evaluated
Read(m) == [m EXCEPT !.oob = @ \/ m.vp > Len(_arguments)]

\* v.push_back() as an insertion at the front
Pushed_front(x, m) ==
  IF x.err # NoError THEN [m EXCEPT !.err = x.err]
  ELSE [m EXCEPT !.v = <<x.val>> \o @, !.vp = @ + 1]

Pushed(x, m) ==
  IF x.err # NoError THEN [m EXCEPT !.err = x.err]
  ELSE [m EXCEPT !.v = Append(@, x.val), !.vp = @ + 1]

PushToken(type, tok, m) ==
  IF tok = Fault THEN [m EXCEPT !.err = "SIGSEGV"] ELSE Pushed(value(type, tok), m)

\* v.push_back(value(type, *vp)); vp++
PushValue(g, type, m) == PushToken(type, Deref(g, m.vp), Read(m))

\* for (auto i=0; i<size; i++) { v.push_back(value(type, *vp)); vp++; }
RECURSIVE ConsumeFixed(_, _, _, _)
ConsumeFixed(g, type, left, m) ==
  IF left = 0 \/ m.err # NoError THEN m
  ELSE ConsumeFixed(g, type, left - 1, PushValue(g, type, m))

\* while (vp != _arguments.end()) { v.push_back(value(type, *vp)); vp++; }
RECURSIVE ConsumeRest(_, _, _)
ConsumeRest(g, type, m) ==
  IF AtEnd(m.vp) \/ m.err # NoError THEN m
  ELSE ConsumeRest(g, type, PushValue(g, type, m))

\* _map.insert(argument(name, v)), unless an exception has been thrown
Insert(name, m) ==
  IF m.err # NoError THEN m ELSE [m EXCEPT !.map = map_insert(@, name, m.v)]

\* const auto& vtrue = values{value(value_type::Bool, "true")};
vtrue == <<value("Bool", Str_true).val>>

\* the values that option o consumes, from m.vp on
OptionValues(g, o, m) ==
  IF o._nargs = 0 THEN [m EXCEPT !.v = vtrue]
  ELSE IF o._nargs >= 1 THEN ConsumeFixed(g, o._type, o._nargs, m)
  ELSE ConsumeRest(g, o._type, m)

\* the body of "if (o==*vp)" for option number k
MatchedOption(g, k, m) ==
  IF _parse_options[k]._nargs >= 0 \/ _parse_options[k]._nargs = variable_args
    THEN Insert(_parse_options[k]._name,
                OptionValues(g, _parse_options[k],
                             [m EXCEPT !.updated = TRUE, !.vp = @ + 1, !.v = <<>>,
                                       !.claimed = Append(@, <<m.vp, k>>)]))
    ELSE [m EXCEPT !.updated = TRUE, !.vp = @ + 1, !.claimed = Append(@, <<m.vp, k>>)]

TestOption(g, k, tok, m) ==
  IF tok = Fault THEN [m EXCEPT !.err = "SIGSEGV"]
  ELSE IF optional_eq(_parse_options[k], tok) THEN MatchedOption(g, k, m)
  ELSE m

\* for (auto o : _parse_options), from option number k on
RECURSIVE ForOptions(_, _, _)
ForOptions(g, k, m) ==
  IF m.err # NoError \/ k > Len(_parse_options) \/ AtEnd(m.vp) THEN m
  ELSE ForOptions(g, k + 1, TestOption(g, k, Deref(g, m.vp), Read(m)))

\* _remaining.push_back() as an insertion at the front
PushRemainingToken_front(tok, m) ==
  IF tok = Fault THEN [m EXCEPT !.err = "SIGSEGV"]
  ELSE [m EXCEPT !._remaining = <<tok>> \o @, !.vp = @ + 1]

PushRemainingToken(tok, m) ==
  IF tok = Fault THEN [m EXCEPT !.err = "SIGSEGV"]
  ELSE [m EXCEPT !._remaining = Append(@, tok), !.vp = @ + 1]

\* if (!_updated) { _remaining.push_back(*vp); vp++; }
NotUpdated(g, m) ==
  IF m.err # NoError \/ m.updated THEN m
  ELSE PushRemainingToken(Deref(g, m.vp), Read(m))

\* while (vp != _arguments.end())
RECURSIVE Phase1(_, _)
Phase1(g, m) ==
  IF m.err # NoError \/ AtEnd(m.vp) THEN m
  ELSE Phase1(g, NotUpdated(g, ForOptions(g, 1, [m EXCEPT !.updated = FALSE])))

(***************************************************************************)
(* parse(), phase 2: rp is the cursor in _remaining, ip the index of the   *)
(* positional argument.                                                    *)
(***************************************************************************)
RemainingAtEnd(m) == m.rp = Len(m._remaining) + 1

PushedRemaining(x, m) ==
  IF x.err # NoError THEN [m EXCEPT !.err = x.err]
  ELSE [m EXCEPT !.v = Append(@, x.val), !.rp = @ + 1]

\* v.push_back(value(type, *vp)); vp++;
PushRemaining(type, m) == PushedRemaining(value(type, m._remaining[m.rp]), m)

\* for (auto i=0; i<size; i++) { if (vp == _remaining.end()) throw ...; push }
RECURSIVE PositionalFixed(_, _, _)
PositionalFixed(type, left, m) ==
  IF left = 0 \/ m.err # NoError THEN m
  ELSE IF RemainingAtEnd(m) THEN [m EXCEPT !.err = "InsufficientArguments"]
  ELSE PositionalFixed(type, left - 1, PushRemaining(type, m))

\* while (vp != _remaining.end()) { push }
RECURSIVE PositionalRest(_, _)
PositionalRest(type, m) ==
  IF RemainingAtEnd(m) \/ m.err # NoError THEN m
  ELSE PositionalRest(type, PushRemaining(type, m))

PositionalValues(p, m) ==
  IF p._nargs >= 1 THEN PositionalFixed(p._type, p._nargs, m)
  ELSE IF p._nargs = variable_args THEN PositionalRest(p._type, m)
  ELSE m

\* the loop over _parse_parameters without the test of line 999
RECURSIVE Phase2_unchecked(_, _)
Phase2_unchecked(ip, m) ==
  IF m.err # NoError \/ ip > Len(_parse_parameters) THEN m
  ELSE Phase2_unchecked(ip + 1,
                        Insert(_parse_parameters[ip]._name,
                               PositionalValues(_parse_parameters[ip], [m EXCEPT !.v = <<>>])))

\* while (ip != _parse_parameters.end())
RECURSIVE Phase2(_, _)
Phase2(ip, m) ==
  IF m.err # NoError \/ ip > Len(_parse_parameters) THEN m
  ELSE IF RemainingAtEnd(m) THEN [m EXCEPT !.err = "InsufficientArguments"]
  ELSE Phase2(ip + 1, Insert(_parse_parameters[ip]._name,
                             PositionalValues(_parse_parameters[ip], [m EXCEPT !.v = <<>>])))

\* the try block of parse(), with g past the end of _arguments
RunParse(g) ==
  Phase2(1, Phase1(g, [v |-> <<>>, err |-> NoError, map |-> _map, vp |-> 1,
                       oob |-> FALSE, updated |-> FALSE, claimed |-> <<>>,
                       _remaining |-> <<>>, rp |-> 1]))

(***************************************************************************)
(* The lookup API, on self = [_completed, _map].  A result is Ok(value) or *)
(* Raise(exception); "UndefinedBehaviour" marks element 0 of an empty      *)
(* vector, which is no exception and which no handler catches.             *)
(***************************************************************************)
Self == [_completed |-> _completed, _map |-> _map]

find(self, name) == name \in DOMAIN self._map

Converted(x, retval) ==
  IF x.err # NoError THEN Raise(x.err) ELSE Ok(Append(retval.val, x.val))

\* for (auto& p : varr) retval.push_back(p.get<T>());
RECURSIVE ConvertAll(_, _, _)
ConvertAll(T, varr, retval) ==
  IF varr = <<>> \/ retval.err # NoError THEN retval
  ELSE ConvertAll(T, Tail(varr), Converted(value_get(T, varr[1]), retval))

\* getall() without the test of _completed
getall_unchecked(self, name, T) ==
  IF ~find(self, name) THEN Raise("UnknownArgument")
  ELSE ConvertAll(T, self._map[name], Ok(<<>>))

getall(self, name, T) ==
  IF ~self._completed THEN Raise("NotParsed")
  ELSE IF ~find(self, name) THEN Raise("UnknownArgument")
  ELSE ConvertAll(T, self._map[name], Ok(<<>>))

getall_dummy(self, name, T, dummy) ==
  IF ~self._completed THEN Raise("NotParsed")
  ELSE IF ~find(self, name) THEN Ok(<<dummy>>)
  ELSE ConvertAll(T, self._map[name], Ok(<<>>))

\* all[0]
First(all) ==
  IF all.err # NoError THEN all
  ELSE IF all.val = <<>> THEN Raise("UndefinedBehaviour")
  ELSE Ok(all.val[1])

get(self, name, T) == First(getall(self, name, T))

\* catch (std::runtime_error e) { return dummy; }
Caught(r, dummy) ==
  IF r.err \in {NoError, "UndefinedBehaviour"} THEN r ELSE Ok(dummy)

\* try { return getall<T>(name)[0]; } catch ...
get_dummy(self, name, T, dummy) == Caught(get(self, name, T), dummy)

(***************************************************************************)
(* The operations.                                                         *)
(***************************************************************************)
Outcome(op, err) ==
  [err |-> err, op |-> op, oob |-> FALSE, claimed |-> <<>>, remaining |-> <<>>]

Init ==
  /\ _arguments \in ArgVectors
  /\ _parse_options = <<>>
  /\ _parse_parameters = <<>>
  /\ _varargs = FALSE
  /\ _completed = FALSE
  /\ _map = EmptyMap
  /\ process = "running"
  /\ outcome = Outcome("argparse", NoError)
  /\ succeeded = FALSE
  /\ parses = 0
  /\ object = NoObject
  /\ result = Result("none", "Null", <<>>, Ok(<<>>))

\* add_argument() without the test of _varargs
add_argument_unchecked(name, type, n) ==
  /\ process = "running"
  /\ Len(_parse_parameters) < MaxPos
  /\ _varargs' = (n < 0)
  /\ _parse_parameters' = Append(_parse_parameters, Positional(name, type, n))
  /\ _completed' = FALSE
  /\ outcome' = Outcome("add_argument", NoError)
  /\ UNCHANGED <<_arguments, _parse_options, _map, process, succeeded, parses>>
  /\ UNCHANGED <<object, result>>

add_argument(name, type, n) ==
  /\ process = "running"
  /\ IF _varargs
       THEN /\ outcome' = Outcome("add_argument", "InvalidRegistration")
            /\ UNCHANGED <<_parse_parameters, _varargs, _completed>>
       ELSE /\ Len(_parse_parameters) < MaxPos
            /\ _varargs' = (n < 0)
            /\ _parse_parameters' = Append(_parse_parameters, Positional(name, type, n))
            /\ _completed' = FALSE
            /\ outcome' = Outcome("add_argument", NoError)
  /\ UNCHANGED <<_arguments, _parse_options, _map, process, succeeded, parses>>
  /\ UNCHANGED <<object, result>>

\* add_option() without "_completed = false"
add_option_keeps_completed(dirs, name, type, n) ==
  /\ process = "running"
  /\ IF _varargs
       THEN /\ outcome' = Outcome("add_option", "InvalidRegistration")
            /\ UNCHANGED <<_parse_options, _varargs>>
       ELSE /\ Len(_parse_options) < MaxOpts
            /\ _varargs' = (n < 0)
            /\ _parse_options' = Append(_parse_options, Option(dirs, name, type, n))
            /\ outcome' = Outcome("add_option", NoError)
  /\ UNCHANGED <<_arguments, _parse_parameters, _map, process, succeeded, parses>>
  /\ UNCHANGED <<_completed, object, result>>

add_option(dirs, name, type, n) ==
  /\ process = "running"
  /\ IF _varargs
       THEN /\ outcome' = Outcome("add_option", "InvalidRegistration")
            /\ UNCHANGED <<_parse_options, _varargs, _completed>>
       ELSE /\ Len(_parse_options) < MaxOpts
            /\ _varargs' = (n < 0)
            /\ _parse_options' = Append(_parse_options, Option(dirs, name, type, n))
            /\ _completed' = FALSE
            /\ outcome' = Outcome("add_option", NoError)
  /\ UNCHANGED <<_arguments, _parse_parameters, _map, process, succeeded, parses>>
  /\ UNCHANGED <<object, result>>

\* if (show_help_and_exit && argparse::get<bool>("help", false)) exit(EXIT_SUCCESS);
AfterHelp(help) ==
  IF help.err = "UndefinedBehaviour" THEN {"running", "exit_success", "crashed"}
  ELSE IF help.val THEN {"exit_success"}
  ELSE {"running"}

\* how the process goes on after the try block of parse() ended with err
ProcessAfter(err, self, help_on_error, show_help_and_exit) ==
  IF err = "SIGSEGV" THEN {"crashed"}
  ELSE IF err # NoError THEN (IF help_on_error THEN {"exit_failure"} ELSE {"running"})
  ELSE IF ~show_help_and_exit THEN {"running"}
  ELSE AfterHelp(get_dummy(self, "help", "bool", FALSE))

\* parse() with "_completed = true" moved out of the try block
Parsed_completed_on_failure(r, help_on_error, show_help_and_exit) ==
  /\ _map' = r.map
  /\ _completed' = TRUE
  /\ succeeded' = (r.err = NoError \/ succeeded)
  /\ outcome' = [err |-> r.err, op |-> "parse", oob |-> r.oob,
                 claimed |-> r.claimed, remaining |-> r._remaining]
  /\ process' \in ProcessAfter(r.err, [_completed |-> TRUE, _map |-> r.map],
                               help_on_error, show_help_and_exit)

\* parse() without "_completed = true"
Parsed_never_completed(r, help_on_error, show_help_and_exit) ==
  /\ _map' = r.map
  /\ _completed' = _completed
  /\ succeeded' = (r.err = NoError \/ succeeded)
  /\ outcome' = [err |-> r.err, op |-> "parse", oob |-> r.oob,
                 claimed |-> r.claimed, remaining |-> r._remaining]
  /\ process' \in ProcessAfter(r.err, [_completed |-> _completed, _map |-> r.map],
                               help_on_error, show_help_and_exit)

\* parse(), its try block having ended in r
Parsed(r, help_on_error, show_help_and_exit) ==
  /\ _map' = r.map
  /\ _completed' = (r.err = NoError \/ _completed)
  /\ succeeded' = (r.err = NoError \/ succeeded)
  /\ outcome' = [err |-> r.err, op |-> "parse", oob |-> r.oob,
                 claimed |-> r.claimed, remaining |-> r._remaining]
  /\ process' \in ProcessAfter(r.err, [_completed |-> (r.err = NoError \/ _completed),
                                       _map |-> r.map],
                               help_on_error, show_help_and_exit)

parse(help_on_error, show_help_and_exit) ==
  /\ process = "running"
  /\ parses < MaxParses
  /\ parses' = parses + 1
  /\ \E g \in GarbageSeqs : Parsed(RunParse(g), help_on_error, show_help_and_exit)
  /\ UNCHANGED <<_arguments, _parse_options, _parse_parameters, _varargs>>
  /\ UNCHANGED <<object, result>>

Next ==
  \/ \E p \in PositionalInputs : add_argument(p._name, p._type, p._nargs)
  \/ \E o \in OptionInputs : add_option(o._optseqs, o._name, o._type, o._nargs)
  \/ \E help_on_error \in BOOLEAN, show_help_and_exit \in BOOLEAN :
       parse(help_on_error, show_help_and_exit)

Spec == Init /\ [][Next]_vars

(***************************************************************************)
(* The operations of a value on its own: the constructor, operator=,       *)
(* get<T>() and describe_type(), on an object that no parser holds.        *)
(***************************************************************************)
Str_empty == <<>>
Str_3x    == <<"3", "x">>
Str_0     == <<"0">>
Str_3p5   == <<"3", ".", "5">>
Str_big   == <<"4", "0", "0", "0", "0">>

\* the raw texts that values are constructed and assigned with
ValueTexts == {Str_empty, Str_3, Str_3x, Str_0, Str_3p5, Str_big, Str_hello, Str_true}

InitValue ==
  /\ _arguments = <<>>
  /\ _parse_options = <<>>
  /\ _parse_parameters = <<>>
  /\ _varargs = FALSE
  /\ _completed = FALSE
  /\ _map = EmptyMap
  /\ process = "running"
  /\ outcome = Outcome("argparse", NoError)
  /\ succeeded = FALSE
  /\ parses = 0
  /\ object = NoObject
  /\ result = Result("none", "Null", <<>>, Ok(<<>>))

\* value v(type, s): when the constructor throws there is no object
New(type, s, r) ==
  /\ object' = (IF r.err = NoError THEN r.val ELSE NoObject)
  /\ result' = Result("value", type, s, r)
  /\ UNCHANGED parservars

construct(type, s) == New(type, s, value(type, s))

\* v = s: _value = s; assert_argument_type(); return *this;
assign(s) ==
  /\ object # NoObject
  /\ object' = [object EXCEPT !._value = s]
  /\ result' = [val |-> <<>>, err |-> assert_argument_type(object._type, s),
                type |-> object._type, op |-> "operator=", text |-> s]
  /\ UNCHANGED parservars

\* v.get<T>()
value_get_call(T) ==
  /\ object # NoObject
  /\ result' = Result("get", T, object._value, value_get(T, object))
  /\ UNCHANGED <<object, parservars>>

\* v.describe_type()
describe_type_call ==
  /\ object # NoObject
  /\ result' = Result("describe_type", object._type, object._value,
                      describe_type(object._type))
  /\ UNCHANGED <<object, parservars>>

NextValue ==
  \/ \E type \in ValueTypes, s \in ValueTexts : construct(type, s)
  \/ \E s \in ValueTexts : assign(s)
  \/ \E T \in RequestTypes : value_get_call(T)
  \/ describe_type_call

SpecValue == InitValue /\ [][NextValue]_vars

(***************************************************************************)
(* What the properties speak of.                                           *)
(***************************************************************************)
\* the latest call is a parse(), so the registry is the one it ran with
ParseDone == outcome.op = "parse"

\* parse() threw and the exception reached the caller (help_on_error = false)
ParseFailed == ParseDone /\ outcome.err \notin {NoError, "SIGSEGV"} /\ process = "running"

\* parse() returned normally to the caller
ParseSucceeded == ParseDone /\ outcome.err = NoError /\ process = "running"

\* the matches of parse() on the tokens of the input
InputClaims == {c \in {outcome.claimed[i] : i \in DOMAIN outcome.claimed} :
                  c[1] <= Len(_arguments)}

\* a matched option of fixed arity n >= 1 with fewer than n tokens after it
ShortOption ==
  \E c \in InputClaims :
    /\ _parse_options[c[2]]._nargs >= 1
    /\ Len(_arguments) - c[1] < _parse_options[c[2]]._nargs

VariablePositionals ==
  {i \in DOMAIN _parse_parameters : _parse_parameters[i]._nargs = variable_args}

VariableOptions ==
  {i \in DOMAIN _parse_options : _parse_options[i]._nargs = variable_args}

\* the defaults that the accessors are called with
Dummies(T) ==
  CASE T = "bool"   -> BOOLEAN
    [] T = "arg"    -> {Str_hello}
    [] T = "double" -> {[neg |-> FALSE, kind |-> "finite", num |-> 5, exp10 |-> -1, exp2 |-> 0]}
    [] OTHER        -> {0, 7}

\* C1: in phase 1 of parse(), the option that claims a token of the input is
\* the first option in registration order whose directives contain the token,
\* also for a token that follows a just-matched option and when the
\* directives of two options overlap.
C1_FirstRegisteredOptionClaims ==
  ParseDone =>
    \A c \in InputClaims :
      \A j \in 1..(c[2] - 1) : ~optional_eq(_parse_options[j], _arguments[c[1]])

\* C2: when an option of fixed arity n >= 1 matches a token and fewer than n
\* tokens follow it, parse() fails with InsufficientArguments, the cursor
\* never reads a token at or past the end of the input, and completed stays
\* false.
C2_ShortOptionIsInsufficientArguments ==
  (ParseDone /\ ShortOption) =>
    /\ outcome.err = "InsufficientArguments"
    /\ ~outcome.oob
    /\ ~_completed

\* the documented example: option ("-n", nums, Integer, 2), positional
\* (tag, String, 1), tokens ["-n", "3", "hello"], parsed
C3_Example ==
  /\ ParseDone
  /\ _arguments = <<Str_n, Str_3, Str_hello>>
  /\ _parse_options = <<Option(<<Str_n>>, "nums", "Integer", 2)>>
  /\ _parse_parameters = <<Positional("tag", "String", 1)>>

\* C3, as stated: parsing ["-n", "3", "hello"] with the option nums of two
\* Integers and the positional tag fails with InsufficientArguments, not with
\* a conversion error for "hello".
C3_ExampleIsInsufficientArguments ==
  C3_Example => outcome.err = "InsufficientArguments"

\* C3, amended: parsing ["-n", "3", "hello"] with the option nums of two
\* Integers and the positional tag fails, and it fails with InvalidConversion:
\* "hello" is consumed as the second value of nums and is no Integer.
\* completed stays false and a first parse() records no entry.
C3_ExampleIsInvalidConversion ==
  C3_Example =>
    /\ outcome.err = "InvalidConversion"
    /\ ~outcome.oob
    /\ ~_completed
    /\ parses = 1 => (~find(Self, "nums") /\ ~find(Self, "tag"))

C3_Witness == C3_Example /\ process = "running" /\ parses = 1

\* C4: the positional registry holds at most one Variable-arity positional,
\* and it is the last one; a call of add_argument made when one is registered
\* fails with InvalidRegistration and leaves the registry unchanged; a call
\* of add_argument made when only fixed-arity positionals (and no options)
\* are registered succeeds, so that the Variable-arity one registers last.
C4_AtMostOneAndLast ==
  /\ Cardinality(VariablePositionals) <= 1
  /\ \A i \in VariablePositionals : i = Len(_parse_parameters)

C4_AddArgumentStep ==
  outcome'.op = "add_argument" =>
    /\ VariablePositionals # {} =>
         /\ outcome'.err = "InvalidRegistration"
         /\ _parse_parameters' = _parse_parameters
    /\ (VariablePositionals = {} /\ _parse_options = <<>>) =>
         /\ outcome'.err = NoError
         /\ Len(_parse_parameters') = Len(_parse_parameters) + 1

C4_VariablePositionalIsLast == [] C4_AtMostOneAndLast /\ [][C4_AddArgumentStep]_vars

C4_Witness ==
  /\ outcome = Outcome("add_argument", "InvalidRegistration")
  /\ _parse_options = <<>>
  /\ Len(_parse_parameters) = 2
  /\ VariablePositionals = {2}

\* C5: a registration fails with InvalidRegistration only if a Variable-arity
\* spec of the same kind is already registered (a failed call leaves the
\* registry as it was).
C5_FailsOnlyForSameKind ==
  /\ outcome = Outcome("add_argument", "InvalidRegistration") => VariablePositionals # {}
  /\ outcome = Outcome("add_option", "InvalidRegistration") => VariableOptions # {}

\* C6: as long as no parse() has succeeded (before any parse(), and after a
\* parse() that failed), completed is false and get<T>(name) and
\* getall<T>(name) raise NotParsed for every name.
C6_NotParsedUntilSuccess ==
  ~succeeded =>
    /\ ~_completed
    /\ \A name \in Names, T \in RequestTypes :
         /\ get(Self, name, T).err = "NotParsed"
         /\ getall(Self, name, T).err = "NotParsed"

C6_Witness ==
  /\ ParseFailed
  /\ ~succeeded
  /\ find(Self, "help")
  /\ get(Self, "help", "bool").err = "NotParsed"

\* a first parse() that threw: every entry of _map was inserted by it
FirstParseFailed == ParseFailed /\ parses = 1

\* C7, as stated: after a parse() that fails partway, no entry inserted
\* before the failure is observable through any query, find(name) included.
C7_NothingObservable ==
  FirstParseFailed =>
    \A name \in Names :
      /\ ~find(Self, name)
      /\ \A T \in RequestTypes : get(Self, name, T).err # NoError
      /\ \A T \in RequestTypes : getall(Self, name, T).err # NoError

\* C7, amended: after a parse() that fails partway, completed is false and
\* no entry inserted before the failure is observable through get or getall,
\* with or without a default: they raise NotParsed or return the default.
\* find(name), which does not consult completed, reports such an entry.
C7_NothingObservableThroughGet ==
  ParseFailed =>
    /\ ~_completed
    /\ \A name \in Names, T \in RequestTypes :
         /\ get(Self, name, T).err = "NotParsed"
         /\ getall(Self, name, T).err = "NotParsed"
         /\ \A d \in Dummies(T) :
              /\ get_dummy(Self, name, T, d) = Ok(d)
              /\ getall_dummy(Self, name, T, d).err = "NotParsed"

C7_Witness ==
  /\ FirstParseFailed
  /\ find(Self, "nums")
  /\ get_dummy(Self, "nums", "int64_t", 7) = Ok(7)

\* C8: when completed is false, get<T>(name, default) returns default and
\* getall<T>(name, default) returns the one-element sequence [default].
C8_DefaultWhenNotParsed ==
  ~_completed =>
    \A name \in Names, T \in RequestTypes :
      \A d \in Dummies(T) :
        /\ get_dummy(Self, name, T, d) = Ok(d)
        /\ getall_dummy(Self, name, T, d) = Ok(<<d>>)

\* C9: after a successful parse, when the entry of name exists and one of
\* its values does not convert to T, get<T>(name, default) and
\* getall<T>(name, default) propagate the conversion failure.
C9_ConversionFailurePropagates ==
  ParseSucceeded =>
    \A name \in Names, T \in RequestTypes :
      (find(Self, name) /\ getall(Self, name, T).err = "InvalidConversion") =>
        \A d \in Dummies(T) :
          /\ get_dummy(Self, name, T, d).err = "InvalidConversion"
          /\ getall_dummy(Self, name, T, d).err = "InvalidConversion"

\* C10: after a successful parse, for a name without an entry,
\* get<T>(name, default) returns default and get<T>(name) raises
\* UnknownArgument.
C10_UnknownArgument ==
  ParseSucceeded =>
    \A name \in Names, T \in RequestTypes :
      ~find(Self, name) =>
        /\ get(Self, name, T).err = "UnknownArgument"
        /\ \A d \in Dummies(T) : get_dummy(Self, name, T, d) = Ok(d)

C10_Witness ==
  /\ ParseSucceeded
  /\ find(Self, "tag")
  /\ ~find(Self, "other")
  /\ get(Self, "other", "arg").err = "UnknownArgument"
  /\ get_dummy(Self, "other", "int64_t", 7) = Ok(7)

(***************************************************************************)
(* What parse() did with the tokens, read off its matches.                 *)
(***************************************************************************)
\* parse() went through phase 1 and phase 2
ParseRan == ParseDone /\ outcome.err = NoError

\* the positions of the tokens that the option of match c takes as values
ValuePositions(c) ==
  IF _parse_options[c[2]]._nargs >= 1
    THEN (c[1] + 1)..(c[1] + _parse_options[c[2]]._nargs)
  ELSE IF _parse_options[c[2]]._nargs = variable_args
    THEN (c[1] + 1)..Len(_arguments)
  ELSE {}

\* the positions matched as a directive or taken as the value of an option
Covered == UNION {{c[1]} \cup ValuePositions(c) : c \in InputClaims}

Uncovered ==
  SelectSeq([i \in 1..Len(_arguments) |-> i], LAMBDA i : i \notin Covered)

\* the tokens at the positions that no option took, in the order of the input
ExpectedRemaining == [j \in 1..Len(Uncovered) |-> _arguments[Uncovered[j]]]

\* the values of type type that the tokens toks are recorded as
Values(type, toks) == [j \in 1..Len(toks) |-> [_value |-> toks[j], _type |-> type]]

Between(seq, from, to) == [j \in 1..(to - from + 1) |-> seq[from + j - 1]]

\* the number of tokens that the positionals before number i take
RECURSIVE TakenBefore(_)
TakenBefore(i) ==
  IF i <= 1 THEN 0
  ELSE TakenBefore(i - 1) +
       (IF _parse_parameters[i - 1]._nargs >= 1 THEN _parse_parameters[i - 1]._nargs ELSE 0)

\* match number j is the first match of an option of its name
FirstOfOption(j) ==
  \A h \in 1..(j - 1) :
    _parse_options[outcome.claimed[h][2]]._name # _parse_options[outcome.claimed[j][2]]._name

\* positional number i is the first resolution of its name
FirstOfPositional(i) ==
  /\ \A c \in InputClaims : _parse_options[c[2]]._name # _parse_parameters[i]._name
  /\ \A h \in 1..(i - 1) : _parse_parameters[h]._name # _parse_parameters[i]._name

\* C11: the remaining sequence built by phase 1 is the tokens of the input
\* that are neither matched as a directive nor taken as the value of an
\* option, in their order; a Variable-arity positional receives every
\* remaining token that the positionals before it did not take, in order.
C11_RemainingAndVariablePositional ==
  /\ (ParseDone /\ outcome.err \in {NoError, "InsufficientArguments"}) =>
       outcome.remaining = ExpectedRemaining
  /\ (ParseRan /\ parses = 1) =>
       \A i \in VariablePositionals :
         FirstOfPositional(i) =>
           /\ find(Self, _parse_parameters[i]._name)
           /\ _map[_parse_parameters[i]._name] =
                Values(_parse_parameters[i]._type,
                       Between(outcome.remaining, TakenBefore(i) + 1,
                               Len(outcome.remaining)))

\* a switch, then a Variable-arity positional, on four tokens with the
\* switch second: the positional has the three other tokens
C11_Witness ==
  /\ ParseRan /\ parses = 1
  /\ _arguments = <<Str_hello, Str_v, Str_3, Str_4>>
  /\ _parse_options = <<Option(<<Str_h, Str_v>>, "help", "Bool", 0)>>
  /\ _parse_parameters = <<Positional("items", "String", variable_args)>>
  /\ outcome.remaining = <<Str_hello, Str_3, Str_4>>
  /\ _map["help"] = vtrue
  /\ _map["items"] = Values("String", <<Str_hello, Str_3, Str_4>>)

\* the values that option o, matched at position pos, records
OptionResolution(pos, o) ==
  IF o._nargs = 0 THEN vtrue
  ELSE IF o._nargs >= 1 THEN Values(o._type, Between(_arguments, pos + 1, pos + o._nargs))
  ELSE Values(o._type, Between(_arguments, pos + 1, Len(_arguments)))

\* the values that p, the positional number i, records
PositionalResolution(i, p) ==
  IF p._nargs >= 1
    THEN Values(p._type, Between(outcome.remaining, TakenBefore(i) + 1,
                                 TakenBefore(i) + p._nargs))
  ELSE IF p._nargs = variable_args
    THEN Values(p._type, Between(outcome.remaining, TakenBefore(i) + 1,
                                 Len(outcome.remaining)))
  ELSE <<>>

\* the documented examples, parsed: a switch and a positional on
\* ["-v", "hello"]; the two-value option and a positional on
\* ["-n", "3", "4", "hello"]
C12_SwitchExample ==
  /\ ParseDone /\ parses = 1
  /\ _arguments = <<Str_v, Str_hello>>
  /\ _parse_options = <<Option(<<Str_h, Str_v>>, "help", "Bool", 0)>>
  /\ _parse_parameters = <<Positional("tag", "String", 1)>>

C12_TwoValueExample ==
  /\ ParseDone /\ parses = 1
  /\ _arguments = <<Str_n, Str_3, Str_4, Str_hello>>
  /\ _parse_options = <<Option(<<Str_n>>, "nums", "Integer", 2)>>
  /\ _parse_parameters = <<Positional("tag", "String", 1)>>

\* C12: when enough tokens are present, a matched option of arity 0 records
\* name -> [true] and takes its directive only; a matched option of fixed
\* arity n >= 1 records the n tokens after its directive, in order; a
\* positional of fixed arity n >= 1 records the next n remaining tokens, in
\* order; completed becomes true.  ["-v", "hello"] gives help = [true],
\* tag = [hello]; ["-n", "3", "4", "hello"] gives nums = [3, 4], tag = [hello].
C12_FixedArityRecords ==
  /\ ParseRan => _completed
  /\ (ParseRan /\ parses = 1) =>
       /\ \A j \in DOMAIN outcome.claimed :
            (FirstOfOption(j) /\ _parse_options[outcome.claimed[j][2]]._nargs >= 0) =>
              /\ find(Self, _parse_options[outcome.claimed[j][2]]._name)
              /\ _map[_parse_options[outcome.claimed[j][2]]._name] =
                   OptionResolution(outcome.claimed[j][1],
                                    _parse_options[outcome.claimed[j][2]])
       /\ \A i \in DOMAIN _parse_parameters :
            (FirstOfPositional(i) /\ _parse_parameters[i]._nargs >= 1) =>
              /\ find(Self, _parse_parameters[i]._name)
              /\ _map[_parse_parameters[i]._name] =
                   PositionalResolution(i, _parse_parameters[i])
       /\ Len(outcome.remaining) + Cardinality(Covered) = Len(_arguments)
  /\ C12_SwitchExample =>
       /\ outcome.err = NoError
       /\ DOMAIN _map = {"help", "tag"}
       /\ _map["help"] = vtrue
       /\ _map["tag"] = Values("String", <<Str_hello>>)
  /\ C12_TwoValueExample =>
       /\ outcome.err = NoError
       /\ DOMAIN _map = {"nums", "tag"}
       /\ _map["nums"] = Values("Integer", <<Str_3, Str_4>>)
       /\ _map["tag"] = Values("String", <<Str_hello>>)

C12_Witness ==
  /\ C12_TwoValueExample
  /\ ParseSucceeded
  /\ _completed
  /\ getall(Self, "nums", "int64_t") = Ok(<<3, 4>>)
  /\ get(Self, "tag", "arg") = Ok(Str_hello)

\* the matches of options of the name, by their number in outcome.claimed
MatchesOf(name) ==
  {j \in DOMAIN outcome.claimed : _parse_options[outcome.claimed[j][2]]._name = name}

PositionalsOf(name) ==
  {i \in DOMAIN _parse_parameters : _parse_parameters[i]._name = name}

Least(S) == CHOOSE x \in S : \A y \in S : x <= y

\* the values of the first resolution of the name: the first match of an
\* option of that name, or else the first positional of that name
FirstResolution(name) ==
  IF MatchesOf(name) # {}
    THEN OptionResolution(outcome.claimed[Least(MatchesOf(name))][1],
                          _parse_options[outcome.claimed[Least(MatchesOf(name))][2]])
    ELSE PositionalResolution(Least(PositionalsOf(name)),
                              _parse_parameters[Least(PositionalsOf(name))])

\* C17: the mapping is write-once per key within a parse: when a name is
\* resolved more than once (an option matched several times, or an option
\* and a positional of one name), the entry keeps the values of the first
\* resolution, and a later match of the option still takes its value
\* tokens from the input.
C17_WriteOncePerKey ==
  (ParseRan /\ parses = 1) =>
    /\ \A name \in DOMAIN _map :
         Cardinality(MatchesOf(name)) + Cardinality(PositionalsOf(name)) >= 2 =>
           _map[name] = FirstResolution(name)
    /\ outcome.remaining = ExpectedRemaining
    /\ \A j \in DOMAIN outcome.claimed :
         ValuePositions(outcome.claimed[j]) \subseteq 1..Len(_arguments)

\* the two-value option given twice: the first two values are kept, the
\* second two are taken from the input and dropped
C17_Witness ==
  /\ ParseRan /\ parses = 1
  /\ _arguments = <<Str_n, Str_3, Str_4, Str_n, Str_4, Str_3>>
  /\ outcome.claimed = <<<<1, 1>>, <<4, 1>>>>
  /\ outcome.remaining = <<>>
  /\ _map["nums"] = Values("Integer", <<Str_3, Str_4>>)

\* phase 2 came to the Variable-arity positional number i, no conversion
\* having failed, with no token of _remaining left for it
NothingLeftFor(i) ==
  /\ ParseDone
  /\ outcome.err \notin {"InvalidConversion", "SIGSEGV"}
  /\ Len(outcome.remaining) <= TakenBefore(i)

\* C18: a Variable-arity positional needs at least one token: when phase 2
\* comes to it and no token of the remaining sequence is left, parse() fails
\* with InsufficientArguments and records no empty entry for it.
C18_VariablePositionalNeedsAToken ==
  \A i \in VariablePositionals :
    NothingLeftFor(i) =>
      /\ outcome.err = "InsufficientArguments"
      /\ ~_completed
      /\ (parses = 1 /\ FirstOfPositional(i)) => ~find(Self, _parse_parameters[i]._name)

C18_Witness ==
  /\ ParseFailed
  /\ outcome.err = "InsufficientArguments"
  /\ _arguments = <<Str_v>>
  /\ outcome.claimed = <<<<1, 1>>>>
  /\ _parse_parameters = <<Positional("items", "String", variable_args)>>
  /\ ~find(Self, "items")

\* C19: after a successful parse every entry of the mapping holds a
\* non-empty sequence of values, so that get<T>(name) never takes element 0
\* of an empty sequence.
C19_EntriesNonEmpty ==
  ParseSucceeded =>
    \A name \in DOMAIN _map :
      /\ Len(_map[name]) >= 1
      /\ \A T \in RequestTypes : get(Self, name, T).err # "UndefinedBehaviour"

\* the latest call is a registration that was accepted
Registered == outcome.op \in {"add_argument", "add_option"} /\ outcome.err = NoError

\* completed is true only if a parse() has succeeded and nothing was
\* registered since; while it is false get and getall raise NotParsed
C20_CompletedNeedsParse ==
  /\ _completed => (succeeded /\ ~Registered)
  /\ ~_completed =>
       \A name \in Names, T \in RequestTypes :
         /\ get(Self, name, T).err = "NotParsed"
         /\ getall(Self, name, T).err = "NotParsed"

\* a registration sets completed to false and leaves the mapping alone; a
\* parse() that returns sets completed to true; a parse() keeps the entries
\* that the mapping holds
C20_Step ==
  /\ Registered' => (~_completed' /\ _map' = _map)
  /\ (outcome'.op = "parse" /\ outcome'.err = NoError) => _completed'
  /\ outcome'.op = "parse" =>
       \A name \in DOMAIN _map : find(Self, name)' /\ _map'[name] = _map[name]

C13_RawConvertibleToTag ==
  object # NoObject => assert_argument_type(object._type, object._value) = NoError

\* the whole of s is a base-10 integer: an optional sign, then digits only
AllDigits(s) == Len(s) >= 1 /\ \A i \in DOMAIN s : s[i] \in DigitChars

IsBase10Integer(s) ==
  IF Len(s) >= 1 /\ s[1] \in {"+", "-"} THEN AllDigits(Tail(s)) ELSE AllDigits(s)

\* C14: constructing an Integer value succeeds only when the whole raw
\* string is a base-10 integer: a valid integer prefix followed by other
\* characters fails with InvalidConversion, as does a string without an
\* integer prefix.
C14_IntegerNeedsWholeString ==
  (result.op = "value" /\ result.type = "Integer" /\ ~IsBase10Integer(result.text)) =>
    result.err = "InvalidConversion"

\* the conversion that the type tag names
TagConversion(v) ==
  CASE v._type = "Bool"    -> convert_bool(v._value)
    [] v._type = "Integer" -> convert_integer(v._value)
    [] v._type = "Float"   -> convert_float(v._value)
    [] OTHER               -> convert_string(v._value)

C16_DescribeTypeOfEveryTag ==
  (result.op = "describe_type" /\ result.type \in {"Bool", "Integer", "Float", "String"}) =>
    result.err = NoError

====
